---- MODULE Spec2Model ----
(***************************************************************************)
(* State-machine model of the sample MHF launcher (src/src/main.rs): the   *)
(* MhfLauncher controller, its HTTP response handling, the character       *)
(* screen operations and the assembly of the MhfConfig handed to           *)
(* mhf_iel::run.                                                           *)
(***************************************************************************)
EXTENDS Integers, Sequences, FiniteSets, TLC

VARIABLES state, username, password, auth_data, error_message,
          clicked, selected, response, config, exit

vars == <<state, username, password, auth_data, error_message,
          clicked, selected, response, config, exit>>

(* ------------------------------ bounds --------------------------------- *)

\* number of distinct scalar profiles (timestamps, rights, token) the server answers with
MaxSnap == 2
\* longest character list the server answers with
MaxChars == 3
\* longest stall-code list of an event
MaxStalls == 2

(* --------------------------- value universes --------------------------- *)

\* Option<T>: None is the empty sequence, Some(x) the one-element sequence
None == <<>>
Some(x) == <<x>>

SeqsUpTo(S, n) == UNION {[1..k -> S] : k \in 0..n}

CharIds == {1, 2, 3}
CharNameTable == <<"X", "Y", "Z", "W", "V">>
TokenTable == <<"T", "U", "V", "W">>
NoteTable == <<"hi", "maintenance", "event", "patch">>

\* raw stall codes the server may send; 1 is outside the enumeration
StallCodes == {1, 2, 3}
\* discriminants of mhf_iel::MezFesStall, the closed enumeration of the external
\* crate; only membership matters here
KnownStalls == {2, 3, 4, 6, 7, 8, 9, 10}

Usernames == {"rockisch", "a"}
Passwords == {"abcdef", "b"}

\* text bodies of non-2xx answers
Bodies == {"", "invalid password"}

Character(i) ==
    [id |-> i, name |-> CharNameTable[i], is_new |-> (i = 3),
     is_female |-> (i = 2), weapon |-> i + 10, hr |-> i + 1, gr |-> i - 1,
     last_login |-> 50 + i]

Characters == {Character(i) : i \in CharIds}

MezFes(k, stalls) ==
    [id |-> 20 + k, start |-> 1000 * k, end |-> 2000 * k,
     solo_tickets |-> k, group_tickets |-> k + 5, stalls |-> stalls]

AuthData(k, chars, mez) ==
    [current_ts |-> 100 * k, expiry_ts |-> 200 * k, entrance_count |-> k + 2,
     notifications |-> [i \in 1..k |-> NoteTable[i]],
     user |-> [rights |-> k, token |-> TokenTable[k]],
     characters |-> chars, mez_fes |-> mez]

\* #[derive(Default)] AuthData
DefaultAuthData ==
    [current_ts |-> 0, expiry_ts |-> 0, entrance_count |-> 0,
     notifications |-> <<>>, user |-> [rights |-> 0, token |-> ""],
     characters |-> <<>>, mez_fes |-> None]

\* snapshots answered to login/register: for every scalar profile the lists
\* with distinct ids combined with no event, an event with known stalls and
\* an event with an unknown stall; any character list (duplicate ids
\* included) without an event; no or one character with any event
CharPrefix(n) == [i \in 1..n |-> Character(i)]
LoginEvents(k) == {None, Some(MezFes(k, <<3, 2>>)), Some(MezFes(k, <<2, 1>>))}
AnyEvents(k) == {None} \cup {Some(MezFes(k, st)) : st \in SeqsUpTo(StallCodes, MaxStalls)}
LoginSnapshots ==
    UNION {{AuthData(k, CharPrefix(n), mez) : n \in 0..MaxChars, mez \in LoginEvents(k)} :
              k \in 1..MaxSnap}
        \cup {AuthData(MaxSnap, chars, None) : chars \in SeqsUpTo(Characters, MaxChars)}
        \cup {AuthData(MaxSnap, CharPrefix(n), mez) :
                 n \in 0..1, mez \in AnyEvents(MaxSnap)}

(* ------------------------------ responses ------------------------------ *)

\* JSON bodies of 2xx answers
JsonAuthData(a) == [type |-> "AuthData", value |-> Some(a)]
JsonCharacter(c) == [type |-> "Character", value |-> Some(c)]
JsonEmptyObject == [type |-> "Object", value |-> None]
JsonMalformed == [type |-> "Malformed", value |-> None]

\* Result<Response, ureq::Error>
Ok(json) == [kind |-> "Ok", body |-> json]
Status(text) == [kind |-> "Status", body |-> text]
StatusUnreadable == [kind |-> "StatusUnreadable"]
Transport == [kind |-> "Transport"]

FailResponses == {Status(b) : b \in Bodies} \cup {StatusUnreadable, Transport}
LoginResponses ==
    {Ok(JsonAuthData(a)) : a \in LoginSnapshots}
        \cup {Ok(JsonMalformed), Ok(JsonEmptyObject)} \cup FailResponses
CreateResponses ==
    {Ok(JsonCharacter(c)) : c \in Characters}
        \cup {Ok(JsonMalformed), Ok(JsonEmptyObject)} \cup FailResponses
DeleteResponses ==
    {Ok(JsonEmptyObject), Ok(JsonCharacter(Character(1))), Ok(JsonMalformed)}
        \cup FailResponses

\* r.into_json::<T>(): serde decoding into the caller's type
IntoJson(T, json) ==
    IF json.type = "Malformed"
        THEN [ok |-> FALSE, data |-> None, err |-> "expected value"]
    ELSE IF T = "Empty"
        THEN [ok |-> TRUE, data |-> Some("Empty"), err |-> ""]
    ELSE IF json.type = T
        THEN [ok |-> TRUE, data |-> json.value, err |-> ""]
    ELSE [ok |-> FALSE, data |-> None, err |-> "missing field"]

\* MhfLauncher::handle_resposne: the new error_message, the decoded result
\* and whether r.into_string().unwrap() panicked
handle_resposne(self_error, T, resp) ==
    IF resp.kind = "Ok"
        THEN LET d == IntoJson(T, resp.body) IN
             IF d.ok
                 THEN [error_message |-> None, result |-> d.data, panic |-> FALSE]
                 ELSE [error_message |-> Some("Failed to decode JSON response: " \o d.err),
                       result |-> None, panic |-> FALSE]
    ELSE IF resp.kind = "Status"
        THEN LET text == IF resp.body = ""
                            THEN "Unable to connect to server, try again later"
                            ELSE resp.body IN
             [error_message |-> Some(text), result |-> None, panic |-> FALSE]
    ELSE IF resp.kind = "StatusUnreadable"
        THEN [error_message |-> self_error, result |-> None, panic |-> TRUE]
    ELSE [error_message |-> Some("Failed to connect to server"),
          result |-> None, panic |-> FALSE]

(* ------------------------------ start flow ----------------------------- *)

\* <u32 as TryInto<MezFesStall>>::try_into
TryIntoStall(v) ==
    IF v \in KnownStalls THEN [ok |-> TRUE, stall |-> [MezFesStall |-> v]]
                         ELSE [ok |-> FALSE, stall |-> [MezFesStall |-> 0]]

\* MhfConfig { .., ..Default::default() } as filled before the event block
BaseConfig(auth, user_name, user_password, character) ==
    [entrance_count |-> auth.entrance_count,
     current_ts |-> auth.current_ts,
     expiry_ts |-> auth.expiry_ts,
     notifications |-> [i \in 1..Len(auth.notifications) |->
                            [data |-> auth.notifications[i], flags |-> 0]],
     char_id |-> character.id,
     char_new |-> character.is_new,
     char_name |-> character.name,
     char_hr |-> character.hr,
     char_gr |-> character.gr,
     char_ids |-> [i \in 1..Len(auth.characters) |-> auth.characters[i].id],
     user_name |-> user_name,
     user_password |-> user_password,
     user_rights |-> auth.user.rights,
     user_token |-> auth.user.token,
     mez_event_id |-> 0, mez_start |-> 0, mez_end |-> 0,
     mez_solo_tickets |-> 0, mez_group_tickets |-> 0, mez_stalls |-> <<>>,
     mhf_folder |-> None]

\* the event block with the two ticket counters exchanged
WithMezFes_swapped_tickets(cfg, mez_fes) ==
    [cfg EXCEPT !.mez_event_id = mez_fes.id,
                !.mez_start = mez_fes.start,
                !.mez_end = mez_fes.end,
                !.mez_solo_tickets = mez_fes.group_tickets,
                !.mez_group_tickets = mez_fes.solo_tickets,
                !.mez_stalls = [i \in 1..Len(mez_fes.stalls) |->
                                   TryIntoStall(mez_fes.stalls[i]).stall]]

\* the if-let block copying the event into the configuration
WithMezFes(cfg, mez_fes) ==
    [cfg EXCEPT !.mez_event_id = mez_fes.id,
                !.mez_start = mez_fes.start,
                !.mez_end = mez_fes.end,
                !.mez_solo_tickets = mez_fes.solo_tickets,
                !.mez_group_tickets = mez_fes.group_tickets,
                !.mez_stalls = [i \in 1..Len(mez_fes.stalls) |->
                                   TryIntoStall(mez_fes.stalls[i]).stall]]

StallsConvert(mez_fes) ==
    \A i \in 1..Len(mez_fes.stalls) : TryIntoStall(mez_fes.stalls[i]).ok

RunOutcomes == {"Ok", "Err", "TakesOver"}

\* handle_start that drops the stall codes it cannot convert and goes on
handle_start_skips_unknown(auth, user_name, user_password, character, run_outcome) ==
    LET base == BaseConfig(auth, user_name, user_password, character)
        Known(v) == v \in KnownStalls
        cfg == IF auth.mez_fes # None
                   THEN WithMezFes(base, [auth.mez_fes[1] EXCEPT
                                             !.stalls = SelectSeq(@, Known)])
                   ELSE base
        full == [cfg EXCEPT !.mhf_folder =
                     Some("F:/Games/Monster Hunter Frontier Online")]
    IN [config |-> Some(full),
        exit |-> IF run_outcome = "Ok" THEN "running"
                 ELSE IF run_outcome = "Err" THEN "panic_run"
                 ELSE "taken_over"]

\* MhfLauncher::handle_start: the configuration passed to mhf_iel::run (None
\* when the stall conversion panicked first) and how the process goes on
handle_start(auth, user_name, user_password, character, run_outcome) ==
    LET base == BaseConfig(auth, user_name, user_password, character) IN
    IF auth.mez_fes # None /\ ~StallsConvert(auth.mez_fes[1])
        THEN [config |-> None, exit |-> "panic_stall"]
        ELSE LET cfg == IF auth.mez_fes # None
                            THEN WithMezFes(base, auth.mez_fes[1])
                            ELSE base
                 full == [cfg EXCEPT !.mhf_folder =
                              Some("F:/Games/Monster Hunter Frontier Online")]
             IN [config |-> Some(full),
                 exit |-> IF run_outcome = "Ok" THEN "running"
                          ELSE IF run_outcome = "Err" THEN "panic_run"
                          ELSE "taken_over"]

\* a removal that stops at the first entry with the id
retain_first_only(chars, id) ==
    IF \E i \in 1..Len(chars) : chars[i].id = id
        THEN LET first == CHOOSE i \in 1..Len(chars) :
                              /\ chars[i].id = id
                              /\ \A j \in 1..(i - 1) : chars[j].id # id
             IN SubSeq(chars, 1, first - 1) \o SubSeq(chars, first + 1, Len(chars))
        ELSE chars

\* Vec::retain(|c| c.id != id)
RECURSIVE retain_not_id(_, _)
retain_not_id(chars, id) ==
    IF chars = <<>> THEN <<>>
    ELSE IF Head(chars).id # id
        THEN <<Head(chars)>> \o retain_not_id(Tail(chars), id)
        ELSE retain_not_id(Tail(chars), id)

(* ------------------------------- actions ------------------------------- *)

\* main: Box::<MhfLauncher>::default() with the two credentials preset
Init ==
    /\ state = "Login"
    /\ username = "rockisch"
    /\ password = "abcdef"
    /\ auth_data = DefaultAuthData
    /\ error_message = None
    /\ clicked = "None"
    /\ selected = None
    /\ response = None
    /\ config = None
    /\ exit = "running"

\* request_login / request_register merging the answer into the stored
\* session: an answer without an event keeps the stored event
request_auth_merges(self_auth, self_error, resp) ==
    LET r == handle_resposne(self_error, "AuthData", resp) IN
    [auth_data |-> IF r.result # None
                       THEN IF r.result[1].mez_fes = None
                                THEN [r.result[1] EXCEPT !.mez_fes = self_auth.mez_fes]
                                ELSE r.result[1]
                       ELSE self_auth,
     error_message |-> r.error_message,
     panic |-> r.panic]

\* MhfLauncher::request_login / request_register: the fields after the call
request_auth(self_auth, self_error, resp) ==
    LET r == handle_resposne(self_error, "AuthData", resp) IN
    [auth_data |-> IF r.result # None THEN r.result[1] ELSE self_auth,
     error_message |-> r.error_message,
     panic |-> r.panic]

\* render_login: the Login and Register buttons
ClickAuth(button, resp) ==
    /\ exit = "running"
    /\ state = "Login"
    /\ LET r == request_auth(auth_data, error_message, resp) IN
       /\ auth_data' = r.auth_data
       /\ error_message' = r.error_message
       /\ exit' = IF r.panic THEN "panic_into_string" ELSE "running"
       /\ state' = IF r.panic THEN state ELSE "Character"
    /\ clicked' = button
    /\ response' = Some(resp)
    /\ selected' = None
    /\ config' = None
    /\ UNCHANGED <<username, password>>

ClickLogin == \E resp \in LoginResponses : ClickAuth("Login", resp)

ClickRegister == \E resp \in LoginResponses : ClickAuth("Register", resp)

\* render_login: the two text fields
EditUsername ==
    /\ exit = "running"
    /\ state = "Login"
    /\ \E u \in Usernames \ {username} : username' = u
    /\ clicked' = "None"
    /\ selected' = None
    /\ response' = None
    /\ config' = None
    /\ UNCHANGED <<state, password, auth_data, error_message, exit>>

EditPassword ==
    /\ exit = "running"
    /\ state = "Login"
    /\ \E p \in Passwords \ {password} : password' = p
    /\ clicked' = "None"
    /\ selected' = None
    /\ response' = None
    /\ config' = None
    /\ UNCHANGED <<state, username, auth_data, error_message, exit>>

\* render_characters: a row's Start button
ClickStart ==
    /\ exit = "running"
    /\ state = "Character"
    /\ \E i \in 1..Len(auth_data.characters), run_outcome \in RunOutcomes :
         LET character == auth_data.characters[i]
             s == handle_start(auth_data, username, password, character, run_outcome) IN
         /\ selected' = Some(character)
         /\ config' = s.config
         /\ exit' = s.exit
    /\ clicked' = "Start"
    /\ response' = None
    /\ UNCHANGED <<state, username, password, auth_data, error_message>>

\* MhfLauncher::request_delete_character: the fields after the call
request_delete_character(self_auth, self_error, character, resp) ==
    LET r == handle_resposne(self_error, "Empty", resp) IN
    [auth_data |-> IF r.result # None
                       THEN [self_auth EXCEPT !.characters =
                                retain_not_id(self_auth.characters, character.id)]
                       ELSE self_auth,
     error_message |-> r.error_message,
     panic |-> r.panic]

\* render_characters: a row's Deleted button
ClickDeleted ==
    /\ exit = "running"
    /\ state = "Character"
    /\ \E i \in 1..Len(auth_data.characters), resp \in DeleteResponses :
         LET character == auth_data.characters[i]
             r == request_delete_character(auth_data, error_message, character, resp) IN
         /\ selected' = Some(character)
         /\ response' = Some(resp)
         /\ auth_data' = r.auth_data
         /\ error_message' = r.error_message
         /\ exit' = IF r.panic THEN "panic_into_string" ELSE "running"
    /\ clicked' = "Deleted"
    /\ config' = None
    /\ UNCHANGED <<state, username, password>>

\* request_create_character storing the created character twice
request_create_character_pushes_twice(self_auth, self_error, user_name, user_password, resp, run_outcome) ==
    LET r == handle_resposne(self_error, "Character", resp) IN
    IF r.result # None
        THEN LET added == [self_auth EXCEPT !.characters =
                              @ \o <<r.result[1], r.result[1]>>]
                 s == handle_start(added, user_name, user_password,
                                   r.result[1], run_outcome) IN
             [auth_data |-> added, error_message |-> r.error_message,
              config |-> s.config, exit |-> s.exit]
        ELSE [auth_data |-> self_auth, error_message |-> r.error_message,
              config |-> None,
              exit |-> IF r.panic THEN "panic_into_string" ELSE "running"]

\* MhfLauncher::request_create_character: the fields after the call
request_create_character(self_auth, self_error, user_name, user_password, resp, run_outcome) ==
    LET r == handle_resposne(self_error, "Character", resp) IN
    IF r.result # None
        THEN LET s == handle_start(self_auth, user_name, user_password,
                                   r.result[1], run_outcome) IN
             [auth_data |-> self_auth, error_message |-> r.error_message,
              config |-> s.config, exit |-> s.exit]
        ELSE [auth_data |-> self_auth, error_message |-> r.error_message,
              config |-> None,
              exit |-> IF r.panic THEN "panic_into_string" ELSE "running"]

\* render_characters: the Create button
ClickCreate ==
    /\ exit = "running"
    /\ state = "Character"
    /\ \E resp \in CreateResponses, run_outcome \in RunOutcomes :
         LET r == request_create_character(auth_data, error_message, username,
                                           password, resp, run_outcome) IN
         /\ response' = Some(resp)
         /\ auth_data' = r.auth_data
         /\ error_message' = r.error_message
         /\ config' = r.config
         /\ exit' = r.exit
    /\ clicked' = "Create"
    /\ selected' = None
    /\ UNCHANGED <<state, username, password>>

\* a Logout button that also resets the session
ClickLogout_resets_session ==
    /\ exit = "running"
    /\ state = "Character"
    /\ error_message' = None
    /\ auth_data' = DefaultAuthData
    /\ state' = "Login"
    /\ clicked' = "Logout"
    /\ selected' = None
    /\ response' = None
    /\ config' = None
    /\ UNCHANGED <<username, password, exit>>

\* render_characters: the Logout button
ClickLogout ==
    /\ exit = "running"
    /\ state = "Character"
    /\ error_message' = None
    /\ state' = "Login"
    /\ clicked' = "Logout"
    /\ selected' = None
    /\ response' = None
    /\ config' = None
    /\ UNCHANGED <<username, password, auth_data, exit>>

Next ==
    \/ ClickLogin
    \/ ClickRegister
    \/ EditUsername
    \/ EditPassword
    \/ ClickStart
    \/ ClickDeleted
    \/ ClickCreate
    \/ ClickLogout

Spec == Init /\ [][Next]_vars

(* ------------------------- vocabulary of the claims -------------------- *)

IsSome(o) == o # None

\* the last frame issued a Transport Client call with this button
Called(buttons) == clicked \in buttons /\ IsSome(response)

\* the 2xx body does not decode into the type the button's request expects
DecodeFails(button, json) ==
    \/ json.type = "Malformed"
    \/ button \in {"Login", "Register"} /\ json.type # "AuthData"
    \/ button = "Create" /\ json.type # "Character"

Succeeded(button, resp) == resp.kind = "Ok" /\ ~DecodeFails(button, resp.body)

\* the three recoverable failures: decode error, non-2xx answer, no answer
Failed(button, resp) ==
    \/ resp.kind = "Ok" /\ DecodeFails(button, resp.body)
    \/ resp.kind = "Status"
    \/ resp.kind = "Transport"

\* any failed request: the three above, or a non-2xx answer whose body
\* cannot be read
FailedAny(button, resp) == Failed(button, resp) \/ resp.kind = "StatusUnreadable"

Ids(chars) == [i \in 1..Len(chars) |-> chars[i].id]
InSeq(x, s) == \E i \in 1..Len(s) : s[i] = x
NoDuplicateIds(chars) ==
    \A i, j \in 1..Len(chars) : chars[i].id = chars[j].id => i = j
HasUnknownStall(auth) ==
    IsSome(auth.mez_fes) /\ \E i \in 1..Len(auth.mez_fes[1].stalls) :
                                auth.mez_fes[1].stalls[i] \notin KnownStalls

(* --------------------------------- C1 ---------------------------------- *)

\* C1: after a login or register call that returned, the controller is in
\* Character state exactly when the request succeeded; a failed request
\* leaves it in Login state with the error message retained.
C1_FailedAuthStaysInLogin ==
    (Called({"Login", "Register"}) /\ exit = "running")
        => /\ (state = "Character") <=> Succeeded(clicked, response[1])
           /\ Failed(clicked, response[1])
                  => state = "Login" /\ IsSome(error_message)

(* --------------------------------- C2 ---------------------------------- *)

\* C2: when createCharacter succeeds the returned character is appended to
\* the end of Session.characters, the existing entries unchanged, and the
\* Launch Configuration assembled for it lists its id among char_ids.
C2_CreateAppendsCharacter ==
    [][(clicked' = "Create" /\ IsSome(response')
            /\ Succeeded("Create", response'[1]) /\ vars' # vars)
          => /\ auth_data'.characters =
                    Append(auth_data.characters, response'[1].body.value[1])
             /\ IsSome(config')
                    => InSeq(response'[1].body.value[1].id, config'[1].char_ids)]_vars

(* --------------------------------- C3 ---------------------------------- *)

\* C3: a login, register or deleteCharacter call that fails (decode error,
\* non-2xx answer with or without body, connectivity error) leaves every
\* field of Session as it was and leaves a non-empty last-error message.
C3_FailureKeepsSession ==
    [][(clicked' \in {"Login", "Register", "Deleted"} /\ IsSome(response')
            /\ FailedAny(clicked', response'[1]) /\ vars' # vars)
          => /\ auth_data' = auth_data
             /\ IsSome(error_message')
             /\ error_message'[1] # ""]_vars

(* --------------------------------- C4 ---------------------------------- *)

\* C4: after a successful login or register Session equals the snapshot of
\* that response in every field, whatever operations preceded it.
C4_LoginReplacesSession ==
    [][(clicked' \in {"Login", "Register"} /\ IsSome(response')
            /\ Succeeded(clicked', response'[1]))
          => auth_data' = response'[1].body.value[1]]_vars

C4_Witness ==
    /\ Called({"Register"})
    /\ Succeeded("Register", response[1])
    /\ username = "a"
    /\ auth_data.user.token = "T"
    /\ auth_data.mez_fes = None
    /\ Ids(auth_data.characters) = <<1>>

(* --------------------------------- C5 ---------------------------------- *)

\* C5: a successful deleteCharacter for id X removes from Session.characters
\* exactly the entries whose id is X, keeps the others in their relative
\* order, changes no other field, and changes nothing when no entry has id X.
C5_DeleteRemovesExactlyId ==
    [][(clicked' = "Deleted" /\ IsSome(response') /\ IsSome(selected')
            /\ Succeeded("Deleted", response'[1]))
          => LET X == selected'[1].id
                 Keep(c) == c.id # X
             IN auth_data' = [auth_data EXCEPT
                                 !.characters = SelectSeq(auth_data.characters, Keep)]]_vars

C5_Witness ==
    /\ Called({"Deleted"})
    /\ Succeeded("Deleted", response[1])
    /\ selected = Some(Character(2))
    /\ Ids(auth_data.characters) = <<3, 1>>

(* --------------------------------- C6 ---------------------------------- *)

\* C6: from a Session without duplicate character ids, a successful
\* createCharacter (the server answering with an id not in use) or
\* deleteCharacter leaves Session.characters without duplicate ids.
C6_NoDuplicateIds ==
    [][(/\ NoDuplicateIds(auth_data.characters)
        /\ clicked' \in {"Create", "Deleted"} /\ IsSome(response')
        /\ Succeeded(clicked', response'[1])
        /\ clicked' = "Create"
              => ~InSeq(response'[1].body.value[1].id, Ids(auth_data.characters)))
          => NoDuplicateIds(auth_data'.characters)]_vars

C6_Witness ==
    /\ Called({"Create"})
    /\ Succeeded("Create", response[1])
    /\ exit = "running"
    /\ Len(auth_data.characters) = 2
    /\ NoDuplicateIds(auth_data.characters)
    /\ ~InSeq(response[1].body.value[1].id, Ids(auth_data.characters))

(* --------------------------------- C7 ---------------------------------- *)

\* C7: a Launch Configuration built from a Session without an Event keeps
\* the event fields at their defaults; built from a Session with an Event
\* whose stall codes are all known it carries the five event fields of the
\* Event and one typed stall per stall code, in the same order.
C7_EventFieldsInConfig ==
    IsSome(config) =>
        LET c == config[1] IN
        /\ auth_data.mez_fes = None
              => /\ c.mez_event_id = 0 /\ c.mez_start = 0 /\ c.mez_end = 0
                 /\ c.mez_solo_tickets = 0 /\ c.mez_group_tickets = 0
                 /\ c.mez_stalls = <<>>
        /\ IsSome(auth_data.mez_fes)
              => LET m == auth_data.mez_fes[1] IN
                 /\ c.mez_event_id = m.id /\ c.mez_start = m.start /\ c.mez_end = m.end
                 /\ c.mez_solo_tickets = m.solo_tickets
                 /\ c.mez_group_tickets = m.group_tickets
                 /\ Len(c.mez_stalls) = Len(m.stalls)
                 /\ \A i \in 1..Len(m.stalls) :
                        c.mez_stalls[i] = [MezFesStall |-> m.stalls[i]]

C7_Witness ==
    /\ clicked = "Start"
    /\ IsSome(config)
    /\ IsSome(auth_data.mez_fes)
    /\ auth_data.mez_fes[1].stalls = <<3, 2>>
    /\ Len(config[1].mez_stalls) = 2

(* --------------------------------- C8 ---------------------------------- *)

\* C8: when the start flow runs on a Session whose Event has a stall code
\* outside the known set, the process terminates during assembly: the
\* runtime is not invoked, no error message is stored by the start flow and
\* the controller takes no further step.
C8_UnknownStallIsFatal ==
    [][/\ exit = "running"
       /\ (/\ HasUnknownStall(auth_data)
           /\ \/ clicked' = "Start"
              \/ clicked' = "Create" /\ IsSome(response')
                    /\ Succeeded("Create", response'[1]))
             => /\ exit' = "panic_stall"
                /\ config' = None
                /\ state' = state /\ auth_data' = auth_data
                /\ error_message' = IF clicked' = "Start" THEN error_message ELSE None]_vars

C8_Witness ==
    /\ exit = "panic_stall"
    /\ clicked = "Start"
    /\ config = None
    /\ auth_data.mez_fes[1].stalls = <<2, 1>>

(* --------------------------------- C9 ---------------------------------- *)

\* C9: after every Transport Client call (login, register, create, delete)
\* the last-error field is empty exactly when the call succeeded, and
\* otherwise holds the message of that call alone.
C9_LastErrorIsLatest ==
    Called({"Login", "Register", "Create", "Deleted"})
        => LET r == response[1] IN
           /\ (error_message = None) <=> Succeeded(clicked, r)
           /\ (r.kind = "Status" /\ r.body # "") => error_message = Some(r.body)
           /\ (r.kind = "Status" /\ r.body = "")
                  => error_message = Some("Unable to connect to server, try again later")
           /\ r.kind = "Transport" => error_message = Some("Failed to connect to server")
           /\ (r.kind = "Ok" /\ r.body.type = "Malformed")
                  => error_message = Some("Failed to decode JSON response: expected value")
           /\ (r.kind = "Ok" /\ r.body.type # "Malformed" /\ DecodeFails(clicked, r.body))
                  => error_message = Some("Failed to decode JSON response: missing field")

(* --------------------------------- C10 --------------------------------- *)

\* C10: logout, taken in Character state, moves the controller to Login and
\* clears the last error, leaving Session and the credentials as they were.
C10_LogoutKeepsSession ==
    [][(clicked' = "Logout" /\ vars' # vars)
          => /\ state = "Character"
             /\ state' = "Login"
             /\ error_message' = None
             /\ auth_data' = auth_data
             /\ username' = username /\ password' = password]_vars

C10_Witness ==
    /\ clicked = "Logout"
    /\ state = "Login"
    /\ error_message = None
    /\ Len(auth_data.characters) >= 2
    /\ auth_data.user.token = "U"
    /\ username = "a"

====
